---- MODULE Spec2Model ----
(***************************************************************************)
(* A model of screenshot-renamer (src/cmd/root.go): the directory walk of  *)
(* searchDirectory, the per-file pipeline describe / suggest / prompt /    *)
(* rename, and the pure helpers isTargetFile and sanitizeFileName.         *)
(*                                                                         *)
(* A Go string is a sequence of runes; a rune is a one-character string,   *)
(* or "U+XXXX" for a rune outside ASCII.                                   *)
(***************************************************************************)
EXTENDS Naturals, Sequences, FiniteSets

VARIABLES
    \* --- sanitizeFileName applied to an input, and to its own output
    name,        \* the argument of sanitizeFileName
    cleanName,   \* sanitizeFileName(name)
    cleanAgain,  \* sanitizeFileName(cleanName)
    spc,         \* "idle" | "start" | "once" | "twice"
    \* --- isTargetFile applied to an input
    filename,    \* the argument of isTargetFile
    isTarget,    \* its result
    cpc,         \* "idle" | "start" | "done"
    \* --- searchDirectory: one run of the tool
    fs,          \* the directory tree: path -> 0 (a directory) or a file's identity
    fs0,         \* the tree as the run found it
    todo,        \* paths filepath.Walk has yet to visit, in visiting order
    pc,          \* "idle" | "walk" | "describe" | "suggest" | "prompt" | "rename" | "done" | "fatal"
    cur,         \* the candidate file in the pipeline (CurRecord)
    stdin,       \* runes typed by the operator and not yet read
    stdinEOF,    \* the operator closed standard input
    apiKey,      \* OPENAI_API_KEY is set
    visits,      \* file identity -> times it entered the pipeline
    lastRename,  \* the last rename performed: [from, to, description]
    renameErr,   \* os.Rename reported an error
    walkErr      \* the traversal reported an error

pureVars == <<name, cleanName, cleanAgain, spc, filename, isTarget, cpc>>
walkVars == <<fs, fs0, todo, pc, cur, stdin, stdinEOF, apiKey, visits,
              lastRename, renameErr, walkErr>>
vars == <<pureVars, walkVars>>

(***************************************************************************)
(* Bounds of the input domains.                                            *)
(***************************************************************************)
MaxLen == 4      \* longest sanitizeFileName input, in runes
MaxChunks == 3   \* longest isTargetFile input, in chunks of FileChunks

(***************************************************************************)
(* Runes and rune classes.                                                 *)
(***************************************************************************)
LowerSeq == <<"a","b","c","d","e","f","g","h","i","j","k","l","m",
              "n","o","p","q","r","s","t","u","v","w","x","y","z">>
UpperSeq == <<"A","B","C","D","E","F","G","H","I","J","K","L","M",
              "N","O","P","Q","R","S","T","U","V","W","X","Y","Z">>
Digits == {"0","1","2","3","4","5","6","7","8","9"}

Range(s) == {s[i] : i \in DOMAIN s}

\* RE2's \w: [0-9A-Za-z_], ASCII only.
WordChars == Range(LowerSeq) \cup Range(UpperSeq) \cup Digits \cup {"_"}

\* unicode.IsSpace, as strings.TrimSpace uses it; fmt's isSpace is the same set:
\* U+0009-U+000D, U+0020, U+0085, U+00A0, U+1680, U+2000-U+200A, U+2028,
\* U+2029, U+202F, U+205F, U+3000.
UnicodeSpace ==
    { "\t", "\n", "U+000B", "U+000C", "\r", " ", "U+0085", "U+00A0", "U+1680",
      "U+2000", "U+2001", "U+2002", "U+2003", "U+2004", "U+2005", "U+2006",
      "U+2007", "U+2008", "U+2009", "U+200A",
      "U+2028", "U+2029", "U+202F", "U+205F", "U+3000" }

\* unicode's simple case mapping outside ASCII: every rune whose lower case is
\* another rune, with that rune (U+0130 lowers to "i", U+212A to "k").
CaseTable ==
    <<
      <<"U+00C0","U+00E0">>, <<"U+00C1","U+00E1">>, <<"U+00C2","U+00E2">>, <<"U+00C3","U+00E3">>,
      <<"U+00C4","U+00E4">>, <<"U+00C5","U+00E5">>, <<"U+00C6","U+00E6">>, <<"U+00C7","U+00E7">>,
      <<"U+00C8","U+00E8">>, <<"U+00C9","U+00E9">>, <<"U+00CA","U+00EA">>, <<"U+00CB","U+00EB">>,
      <<"U+00CC","U+00EC">>, <<"U+00CD","U+00ED">>, <<"U+00CE","U+00EE">>, <<"U+00CF","U+00EF">>,
      <<"U+00D0","U+00F0">>, <<"U+00D1","U+00F1">>, <<"U+00D2","U+00F2">>, <<"U+00D3","U+00F3">>,
      <<"U+00D4","U+00F4">>, <<"U+00D5","U+00F5">>, <<"U+00D6","U+00F6">>, <<"U+00D8","U+00F8">>,
      <<"U+00D9","U+00F9">>, <<"U+00DA","U+00FA">>, <<"U+00DB","U+00FB">>, <<"U+00DC","U+00FC">>,
      <<"U+00DD","U+00FD">>, <<"U+00DE","U+00FE">>, <<"U+0100","U+0101">>, <<"U+0102","U+0103">>,
      <<"U+0104","U+0105">>, <<"U+0106","U+0107">>, <<"U+0108","U+0109">>, <<"U+010A","U+010B">>,
      <<"U+010C","U+010D">>, <<"U+010E","U+010F">>, <<"U+0110","U+0111">>, <<"U+0112","U+0113">>,
      <<"U+0114","U+0115">>, <<"U+0116","U+0117">>, <<"U+0118","U+0119">>, <<"U+011A","U+011B">>,
      <<"U+011C","U+011D">>, <<"U+011E","U+011F">>, <<"U+0120","U+0121">>, <<"U+0122","U+0123">>,
      <<"U+0124","U+0125">>, <<"U+0126","U+0127">>, <<"U+0128","U+0129">>, <<"U+012A","U+012B">>,
      <<"U+012C","U+012D">>, <<"U+012E","U+012F">>, <<"U+0130","i">>, <<"U+0132","U+0133">>,
      <<"U+0134","U+0135">>, <<"U+0136","U+0137">>, <<"U+0139","U+013A">>, <<"U+013B","U+013C">>,
      <<"U+013D","U+013E">>, <<"U+013F","U+0140">>, <<"U+0141","U+0142">>, <<"U+0143","U+0144">>,
      <<"U+0145","U+0146">>, <<"U+0147","U+0148">>, <<"U+014A","U+014B">>, <<"U+014C","U+014D">>,
      <<"U+014E","U+014F">>, <<"U+0150","U+0151">>, <<"U+0152","U+0153">>, <<"U+0154","U+0155">>,
      <<"U+0156","U+0157">>, <<"U+0158","U+0159">>, <<"U+015A","U+015B">>, <<"U+015C","U+015D">>,
      <<"U+015E","U+015F">>, <<"U+0160","U+0161">>, <<"U+0162","U+0163">>, <<"U+0164","U+0165">>,
      <<"U+0166","U+0167">>, <<"U+0168","U+0169">>, <<"U+016A","U+016B">>, <<"U+016C","U+016D">>,
      <<"U+016E","U+016F">>, <<"U+0170","U+0171">>, <<"U+0172","U+0173">>, <<"U+0174","U+0175">>,
      <<"U+0176","U+0177">>, <<"U+0178","U+00FF">>, <<"U+0179","U+017A">>, <<"U+017B","U+017C">>,
      <<"U+017D","U+017E">>, <<"U+0181","U+0253">>, <<"U+0182","U+0183">>, <<"U+0184","U+0185">>,
      <<"U+0186","U+0254">>, <<"U+0187","U+0188">>, <<"U+0189","U+0256">>, <<"U+018A","U+0257">>,
      <<"U+018B","U+018C">>, <<"U+018E","U+01DD">>, <<"U+018F","U+0259">>, <<"U+0190","U+025B">>,
      <<"U+0191","U+0192">>, <<"U+0193","U+0260">>, <<"U+0194","U+0263">>, <<"U+0196","U+0269">>,
      <<"U+0197","U+0268">>, <<"U+0198","U+0199">>, <<"U+019C","U+026F">>, <<"U+019D","U+0272">>,
      <<"U+019F","U+0275">>, <<"U+01A0","U+01A1">>, <<"U+01A2","U+01A3">>, <<"U+01A4","U+01A5">>,
      <<"U+01A6","U+0280">>, <<"U+01A7","U+01A8">>, <<"U+01A9","U+0283">>, <<"U+01AC","U+01AD">>,
      <<"U+01AE","U+0288">>, <<"U+01AF","U+01B0">>, <<"U+01B1","U+028A">>, <<"U+01B2","U+028B">>,
      <<"U+01B3","U+01B4">>, <<"U+01B5","U+01B6">>, <<"U+01B7","U+0292">>, <<"U+01B8","U+01B9">>,
      <<"U+01BC","U+01BD">>, <<"U+01C4","U+01C6">>, <<"U+01C5","U+01C6">>, <<"U+01C7","U+01C9">>,
      <<"U+01C8","U+01C9">>, <<"U+01CA","U+01CC">>, <<"U+01CB","U+01CC">>, <<"U+01CD","U+01CE">>,
      <<"U+01CF","U+01D0">>, <<"U+01D1","U+01D2">>, <<"U+01D3","U+01D4">>, <<"U+01D5","U+01D6">>,
      <<"U+01D7","U+01D8">>, <<"U+01D9","U+01DA">>, <<"U+01DB","U+01DC">>, <<"U+01DE","U+01DF">>,
      <<"U+01E0","U+01E1">>, <<"U+01E2","U+01E3">>, <<"U+01E4","U+01E5">>, <<"U+01E6","U+01E7">>,
      <<"U+01E8","U+01E9">>, <<"U+01EA","U+01EB">>, <<"U+01EC","U+01ED">>, <<"U+01EE","U+01EF">>,
      <<"U+01F1","U+01F3">>, <<"U+01F2","U+01F3">>, <<"U+01F4","U+01F5">>, <<"U+01F6","U+0195">>,
      <<"U+01F7","U+01BF">>, <<"U+01F8","U+01F9">>, <<"U+01FA","U+01FB">>, <<"U+01FC","U+01FD">>,
      <<"U+01FE","U+01FF">>, <<"U+0200","U+0201">>, <<"U+0202","U+0203">>, <<"U+0204","U+0205">>,
      <<"U+0206","U+0207">>, <<"U+0208","U+0209">>, <<"U+020A","U+020B">>, <<"U+020C","U+020D">>,
      <<"U+020E","U+020F">>, <<"U+0210","U+0211">>, <<"U+0212","U+0213">>, <<"U+0214","U+0215">>,
      <<"U+0216","U+0217">>, <<"U+0218","U+0219">>, <<"U+021A","U+021B">>, <<"U+021C","U+021D">>,
      <<"U+021E","U+021F">>, <<"U+0220","U+019E">>, <<"U+0222","U+0223">>, <<"U+0224","U+0225">>,
      <<"U+0226","U+0227">>, <<"U+0228","U+0229">>, <<"U+022A","U+022B">>, <<"U+022C","U+022D">>,
      <<"U+022E","U+022F">>, <<"U+0230","U+0231">>, <<"U+0232","U+0233">>, <<"U+023A","U+2C65">>,
      <<"U+023B","U+023C">>, <<"U+023D","U+019A">>, <<"U+023E","U+2C66">>, <<"U+0241","U+0242">>,
      <<"U+0243","U+0180">>, <<"U+0244","U+0289">>, <<"U+0245","U+028C">>, <<"U+0246","U+0247">>,
      <<"U+0248","U+0249">>, <<"U+024A","U+024B">>, <<"U+024C","U+024D">>, <<"U+024E","U+024F">>,
      <<"U+0370","U+0371">>, <<"U+0372","U+0373">>, <<"U+0376","U+0377">>, <<"U+037F","U+03F3">>,
      <<"U+0386","U+03AC">>, <<"U+0388","U+03AD">>, <<"U+0389","U+03AE">>, <<"U+038A","U+03AF">>,
      <<"U+038C","U+03CC">>, <<"U+038E","U+03CD">>, <<"U+038F","U+03CE">>, <<"U+0391","U+03B1">>,
      <<"U+0392","U+03B2">>, <<"U+0393","U+03B3">>, <<"U+0394","U+03B4">>, <<"U+0395","U+03B5">>,
      <<"U+0396","U+03B6">>, <<"U+0397","U+03B7">>, <<"U+0398","U+03B8">>, <<"U+0399","U+03B9">>,
      <<"U+039A","U+03BA">>, <<"U+039B","U+03BB">>, <<"U+039C","U+03BC">>, <<"U+039D","U+03BD">>,
      <<"U+039E","U+03BE">>, <<"U+039F","U+03BF">>, <<"U+03A0","U+03C0">>, <<"U+03A1","U+03C1">>,
      <<"U+03A3","U+03C3">>, <<"U+03A4","U+03C4">>, <<"U+03A5","U+03C5">>, <<"U+03A6","U+03C6">>,
      <<"U+03A7","U+03C7">>, <<"U+03A8","U+03C8">>, <<"U+03A9","U+03C9">>, <<"U+03AA","U+03CA">>,
      <<"U+03AB","U+03CB">>, <<"U+03CF","U+03D7">>, <<"U+03D8","U+03D9">>, <<"U+03DA","U+03DB">>,
      <<"U+03DC","U+03DD">>, <<"U+03DE","U+03DF">>, <<"U+03E0","U+03E1">>, <<"U+03E2","U+03E3">>,
      <<"U+03E4","U+03E5">>, <<"U+03E6","U+03E7">>, <<"U+03E8","U+03E9">>, <<"U+03EA","U+03EB">>,
      <<"U+03EC","U+03ED">>, <<"U+03EE","U+03EF">>, <<"U+03F4","U+03B8">>, <<"U+03F7","U+03F8">>,
      <<"U+03F9","U+03F2">>, <<"U+03FA","U+03FB">>, <<"U+03FD","U+037B">>, <<"U+03FE","U+037C">>,
      <<"U+03FF","U+037D">>, <<"U+0400","U+0450">>, <<"U+0401","U+0451">>, <<"U+0402","U+0452">>,
      <<"U+0403","U+0453">>, <<"U+0404","U+0454">>, <<"U+0405","U+0455">>, <<"U+0406","U+0456">>,
      <<"U+0407","U+0457">>, <<"U+0408","U+0458">>, <<"U+0409","U+0459">>, <<"U+040A","U+045A">>,
      <<"U+040B","U+045B">>, <<"U+040C","U+045C">>, <<"U+040D","U+045D">>, <<"U+040E","U+045E">>,
      <<"U+040F","U+045F">>, <<"U+0410","U+0430">>, <<"U+0411","U+0431">>, <<"U+0412","U+0432">>,
      <<"U+0413","U+0433">>, <<"U+0414","U+0434">>, <<"U+0415","U+0435">>, <<"U+0416","U+0436">>,
      <<"U+0417","U+0437">>, <<"U+0418","U+0438">>, <<"U+0419","U+0439">>, <<"U+041A","U+043A">>,
      <<"U+041B","U+043B">>, <<"U+041C","U+043C">>, <<"U+041D","U+043D">>, <<"U+041E","U+043E">>,
      <<"U+041F","U+043F">>, <<"U+0420","U+0440">>, <<"U+0421","U+0441">>, <<"U+0422","U+0442">>,
      <<"U+0423","U+0443">>, <<"U+0424","U+0444">>, <<"U+0425","U+0445">>, <<"U+0426","U+0446">>,
      <<"U+0427","U+0447">>, <<"U+0428","U+0448">>, <<"U+0429","U+0449">>, <<"U+042A","U+044A">>,
      <<"U+042B","U+044B">>, <<"U+042C","U+044C">>, <<"U+042D","U+044D">>, <<"U+042E","U+044E">>,
      <<"U+042F","U+044F">>, <<"U+0460","U+0461">>, <<"U+0462","U+0463">>, <<"U+0464","U+0465">>,
      <<"U+0466","U+0467">>, <<"U+0468","U+0469">>, <<"U+046A","U+046B">>, <<"U+046C","U+046D">>,
      <<"U+046E","U+046F">>, <<"U+0470","U+0471">>, <<"U+0472","U+0473">>, <<"U+0474","U+0475">>,
      <<"U+0476","U+0477">>, <<"U+0478","U+0479">>, <<"U+047A","U+047B">>, <<"U+047C","U+047D">>,
      <<"U+047E","U+047F">>, <<"U+0480","U+0481">>, <<"U+048A","U+048B">>, <<"U+048C","U+048D">>,
      <<"U+048E","U+048F">>, <<"U+0490","U+0491">>, <<"U+0492","U+0493">>, <<"U+0494","U+0495">>,
      <<"U+0496","U+0497">>, <<"U+0498","U+0499">>, <<"U+049A","U+049B">>, <<"U+049C","U+049D">>,
      <<"U+049E","U+049F">>, <<"U+04A0","U+04A1">>, <<"U+04A2","U+04A3">>, <<"U+04A4","U+04A5">>,
      <<"U+04A6","U+04A7">>, <<"U+04A8","U+04A9">>, <<"U+04AA","U+04AB">>, <<"U+04AC","U+04AD">>,
      <<"U+04AE","U+04AF">>, <<"U+04B0","U+04B1">>, <<"U+04B2","U+04B3">>, <<"U+04B4","U+04B5">>,
      <<"U+04B6","U+04B7">>, <<"U+04B8","U+04B9">>, <<"U+04BA","U+04BB">>, <<"U+04BC","U+04BD">>,
      <<"U+04BE","U+04BF">>, <<"U+04C0","U+04CF">>, <<"U+04C1","U+04C2">>, <<"U+04C3","U+04C4">>,
      <<"U+04C5","U+04C6">>, <<"U+04C7","U+04C8">>, <<"U+04C9","U+04CA">>, <<"U+04CB","U+04CC">>,
      <<"U+04CD","U+04CE">>, <<"U+04D0","U+04D1">>, <<"U+04D2","U+04D3">>, <<"U+04D4","U+04D5">>,
      <<"U+04D6","U+04D7">>, <<"U+04D8","U+04D9">>, <<"U+04DA","U+04DB">>, <<"U+04DC","U+04DD">>,
      <<"U+04DE","U+04DF">>, <<"U+04E0","U+04E1">>, <<"U+04E2","U+04E3">>, <<"U+04E4","U+04E5">>,
      <<"U+04E6","U+04E7">>, <<"U+04E8","U+04E9">>, <<"U+04EA","U+04EB">>, <<"U+04EC","U+04ED">>,
      <<"U+04EE","U+04EF">>, <<"U+04F0","U+04F1">>, <<"U+04F2","U+04F3">>, <<"U+04F4","U+04F5">>,
      <<"U+04F6","U+04F7">>, <<"U+04F8","U+04F9">>, <<"U+04FA","U+04FB">>, <<"U+04FC","U+04FD">>,
      <<"U+04FE","U+04FF">>, <<"U+0500","U+0501">>, <<"U+0502","U+0503">>, <<"U+0504","U+0505">>,
      <<"U+0506","U+0507">>, <<"U+0508","U+0509">>, <<"U+050A","U+050B">>, <<"U+050C","U+050D">>,
      <<"U+050E","U+050F">>, <<"U+0510","U+0511">>, <<"U+0512","U+0513">>, <<"U+0514","U+0515">>,
      <<"U+0516","U+0517">>, <<"U+0518","U+0519">>, <<"U+051A","U+051B">>, <<"U+051C","U+051D">>,
      <<"U+051E","U+051F">>, <<"U+0520","U+0521">>, <<"U+0522","U+0523">>, <<"U+0524","U+0525">>,
      <<"U+0526","U+0527">>, <<"U+0528","U+0529">>, <<"U+052A","U+052B">>, <<"U+052C","U+052D">>,
      <<"U+052E","U+052F">>, <<"U+0531","U+0561">>, <<"U+0532","U+0562">>, <<"U+0533","U+0563">>,
      <<"U+0534","U+0564">>, <<"U+0535","U+0565">>, <<"U+0536","U+0566">>, <<"U+0537","U+0567">>,
      <<"U+0538","U+0568">>, <<"U+0539","U+0569">>, <<"U+053A","U+056A">>, <<"U+053B","U+056B">>,
      <<"U+053C","U+056C">>, <<"U+053D","U+056D">>, <<"U+053E","U+056E">>, <<"U+053F","U+056F">>,
      <<"U+0540","U+0570">>, <<"U+0541","U+0571">>, <<"U+0542","U+0572">>, <<"U+0543","U+0573">>,
      <<"U+0544","U+0574">>, <<"U+0545","U+0575">>, <<"U+0546","U+0576">>, <<"U+0547","U+0577">>,
      <<"U+0548","U+0578">>, <<"U+0549","U+0579">>, <<"U+054A","U+057A">>, <<"U+054B","U+057B">>,
      <<"U+054C","U+057C">>, <<"U+054D","U+057D">>, <<"U+054E","U+057E">>, <<"U+054F","U+057F">>,
      <<"U+0550","U+0580">>, <<"U+0551","U+0581">>, <<"U+0552","U+0582">>, <<"U+0553","U+0583">>,
      <<"U+0554","U+0584">>, <<"U+0555","U+0585">>, <<"U+0556","U+0586">>, <<"U+10A0","U+2D00">>,
      <<"U+10A1","U+2D01">>, <<"U+10A2","U+2D02">>, <<"U+10A3","U+2D03">>, <<"U+10A4","U+2D04">>,
      <<"U+10A5","U+2D05">>, <<"U+10A6","U+2D06">>, <<"U+10A7","U+2D07">>, <<"U+10A8","U+2D08">>,
      <<"U+10A9","U+2D09">>, <<"U+10AA","U+2D0A">>, <<"U+10AB","U+2D0B">>, <<"U+10AC","U+2D0C">>,
      <<"U+10AD","U+2D0D">>, <<"U+10AE","U+2D0E">>, <<"U+10AF","U+2D0F">>, <<"U+10B0","U+2D10">>,
      <<"U+10B1","U+2D11">>, <<"U+10B2","U+2D12">>, <<"U+10B3","U+2D13">>, <<"U+10B4","U+2D14">>,
      <<"U+10B5","U+2D15">>, <<"U+10B6","U+2D16">>, <<"U+10B7","U+2D17">>, <<"U+10B8","U+2D18">>,
      <<"U+10B9","U+2D19">>, <<"U+10BA","U+2D1A">>, <<"U+10BB","U+2D1B">>, <<"U+10BC","U+2D1C">>,
      <<"U+10BD","U+2D1D">>, <<"U+10BE","U+2D1E">>, <<"U+10BF","U+2D1F">>, <<"U+10C0","U+2D20">>,
      <<"U+10C1","U+2D21">>, <<"U+10C2","U+2D22">>, <<"U+10C3","U+2D23">>, <<"U+10C4","U+2D24">>,
      <<"U+10C5","U+2D25">>, <<"U+10C7","U+2D27">>, <<"U+10CD","U+2D2D">>, <<"U+13A0","U+AB70">>,
      <<"U+13A1","U+AB71">>, <<"U+13A2","U+AB72">>, <<"U+13A3","U+AB73">>, <<"U+13A4","U+AB74">>,
      <<"U+13A5","U+AB75">>, <<"U+13A6","U+AB76">>, <<"U+13A7","U+AB77">>, <<"U+13A8","U+AB78">>,
      <<"U+13A9","U+AB79">>, <<"U+13AA","U+AB7A">>, <<"U+13AB","U+AB7B">>, <<"U+13AC","U+AB7C">>,
      <<"U+13AD","U+AB7D">>, <<"U+13AE","U+AB7E">>, <<"U+13AF","U+AB7F">>, <<"U+13B0","U+AB80">>,
      <<"U+13B1","U+AB81">>, <<"U+13B2","U+AB82">>, <<"U+13B3","U+AB83">>, <<"U+13B4","U+AB84">>,
      <<"U+13B5","U+AB85">>, <<"U+13B6","U+AB86">>, <<"U+13B7","U+AB87">>, <<"U+13B8","U+AB88">>,
      <<"U+13B9","U+AB89">>, <<"U+13BA","U+AB8A">>, <<"U+13BB","U+AB8B">>, <<"U+13BC","U+AB8C">>,
      <<"U+13BD","U+AB8D">>, <<"U+13BE","U+AB8E">>, <<"U+13BF","U+AB8F">>, <<"U+13C0","U+AB90">>,
      <<"U+13C1","U+AB91">>, <<"U+13C2","U+AB92">>, <<"U+13C3","U+AB93">>, <<"U+13C4","U+AB94">>,
      <<"U+13C5","U+AB95">>, <<"U+13C6","U+AB96">>, <<"U+13C7","U+AB97">>, <<"U+13C8","U+AB98">>,
      <<"U+13C9","U+AB99">>, <<"U+13CA","U+AB9A">>, <<"U+13CB","U+AB9B">>, <<"U+13CC","U+AB9C">>,
      <<"U+13CD","U+AB9D">>, <<"U+13CE","U+AB9E">>, <<"U+13CF","U+AB9F">>, <<"U+13D0","U+ABA0">>,
      <<"U+13D1","U+ABA1">>, <<"U+13D2","U+ABA2">>, <<"U+13D3","U+ABA3">>, <<"U+13D4","U+ABA4">>,
      <<"U+13D5","U+ABA5">>, <<"U+13D6","U+ABA6">>, <<"U+13D7","U+ABA7">>, <<"U+13D8","U+ABA8">>,
      <<"U+13D9","U+ABA9">>, <<"U+13DA","U+ABAA">>, <<"U+13DB","U+ABAB">>, <<"U+13DC","U+ABAC">>,
      <<"U+13DD","U+ABAD">>, <<"U+13DE","U+ABAE">>, <<"U+13DF","U+ABAF">>, <<"U+13E0","U+ABB0">>,
      <<"U+13E1","U+ABB1">>, <<"U+13E2","U+ABB2">>, <<"U+13E3","U+ABB3">>, <<"U+13E4","U+ABB4">>,
      <<"U+13E5","U+ABB5">>, <<"U+13E6","U+ABB6">>, <<"U+13E7","U+ABB7">>, <<"U+13E8","U+ABB8">>,
      <<"U+13E9","U+ABB9">>, <<"U+13EA","U+ABBA">>, <<"U+13EB","U+ABBB">>, <<"U+13EC","U+ABBC">>,
      <<"U+13ED","U+ABBD">>, <<"U+13EE","U+ABBE">>, <<"U+13EF","U+ABBF">>, <<"U+13F0","U+13F8">>,
      <<"U+13F1","U+13F9">>, <<"U+13F2","U+13FA">>, <<"U+13F3","U+13FB">>, <<"U+13F4","U+13FC">>,
      <<"U+13F5","U+13FD">>, <<"U+1C90","U+10D0">>, <<"U+1C91","U+10D1">>, <<"U+1C92","U+10D2">>,
      <<"U+1C93","U+10D3">>, <<"U+1C94","U+10D4">>, <<"U+1C95","U+10D5">>, <<"U+1C96","U+10D6">>,
      <<"U+1C97","U+10D7">>, <<"U+1C98","U+10D8">>, <<"U+1C99","U+10D9">>, <<"U+1C9A","U+10DA">>,
      <<"U+1C9B","U+10DB">>, <<"U+1C9C","U+10DC">>, <<"U+1C9D","U+10DD">>, <<"U+1C9E","U+10DE">>,
      <<"U+1C9F","U+10DF">>, <<"U+1CA0","U+10E0">>, <<"U+1CA1","U+10E1">>, <<"U+1CA2","U+10E2">>,
      <<"U+1CA3","U+10E3">>, <<"U+1CA4","U+10E4">>, <<"U+1CA5","U+10E5">>, <<"U+1CA6","U+10E6">>,
      <<"U+1CA7","U+10E7">>, <<"U+1CA8","U+10E8">>, <<"U+1CA9","U+10E9">>, <<"U+1CAA","U+10EA">>,
      <<"U+1CAB","U+10EB">>, <<"U+1CAC","U+10EC">>, <<"U+1CAD","U+10ED">>, <<"U+1CAE","U+10EE">>,
      <<"U+1CAF","U+10EF">>, <<"U+1CB0","U+10F0">>, <<"U+1CB1","U+10F1">>, <<"U+1CB2","U+10F2">>,
      <<"U+1CB3","U+10F3">>, <<"U+1CB4","U+10F4">>, <<"U+1CB5","U+10F5">>, <<"U+1CB6","U+10F6">>,
      <<"U+1CB7","U+10F7">>, <<"U+1CB8","U+10F8">>, <<"U+1CB9","U+10F9">>, <<"U+1CBA","U+10FA">>,
      <<"U+1CBD","U+10FD">>, <<"U+1CBE","U+10FE">>, <<"U+1CBF","U+10FF">>, <<"U+1E00","U+1E01">>,
      <<"U+1E02","U+1E03">>, <<"U+1E04","U+1E05">>, <<"U+1E06","U+1E07">>, <<"U+1E08","U+1E09">>,
      <<"U+1E0A","U+1E0B">>, <<"U+1E0C","U+1E0D">>, <<"U+1E0E","U+1E0F">>, <<"U+1E10","U+1E11">>,
      <<"U+1E12","U+1E13">>, <<"U+1E14","U+1E15">>, <<"U+1E16","U+1E17">>, <<"U+1E18","U+1E19">>,
      <<"U+1E1A","U+1E1B">>, <<"U+1E1C","U+1E1D">>, <<"U+1E1E","U+1E1F">>, <<"U+1E20","U+1E21">>,
      <<"U+1E22","U+1E23">>, <<"U+1E24","U+1E25">>, <<"U+1E26","U+1E27">>, <<"U+1E28","U+1E29">>,
      <<"U+1E2A","U+1E2B">>, <<"U+1E2C","U+1E2D">>, <<"U+1E2E","U+1E2F">>, <<"U+1E30","U+1E31">>,
      <<"U+1E32","U+1E33">>, <<"U+1E34","U+1E35">>, <<"U+1E36","U+1E37">>, <<"U+1E38","U+1E39">>,
      <<"U+1E3A","U+1E3B">>, <<"U+1E3C","U+1E3D">>, <<"U+1E3E","U+1E3F">>, <<"U+1E40","U+1E41">>,
      <<"U+1E42","U+1E43">>, <<"U+1E44","U+1E45">>, <<"U+1E46","U+1E47">>, <<"U+1E48","U+1E49">>,
      <<"U+1E4A","U+1E4B">>, <<"U+1E4C","U+1E4D">>, <<"U+1E4E","U+1E4F">>, <<"U+1E50","U+1E51">>,
      <<"U+1E52","U+1E53">>, <<"U+1E54","U+1E55">>, <<"U+1E56","U+1E57">>, <<"U+1E58","U+1E59">>,
      <<"U+1E5A","U+1E5B">>, <<"U+1E5C","U+1E5D">>, <<"U+1E5E","U+1E5F">>, <<"U+1E60","U+1E61">>,
      <<"U+1E62","U+1E63">>, <<"U+1E64","U+1E65">>, <<"U+1E66","U+1E67">>, <<"U+1E68","U+1E69">>,
      <<"U+1E6A","U+1E6B">>, <<"U+1E6C","U+1E6D">>, <<"U+1E6E","U+1E6F">>, <<"U+1E70","U+1E71">>,
      <<"U+1E72","U+1E73">>, <<"U+1E74","U+1E75">>, <<"U+1E76","U+1E77">>, <<"U+1E78","U+1E79">>,
      <<"U+1E7A","U+1E7B">>, <<"U+1E7C","U+1E7D">>, <<"U+1E7E","U+1E7F">>, <<"U+1E80","U+1E81">>,
      <<"U+1E82","U+1E83">>, <<"U+1E84","U+1E85">>, <<"U+1E86","U+1E87">>, <<"U+1E88","U+1E89">>,
      <<"U+1E8A","U+1E8B">>, <<"U+1E8C","U+1E8D">>, <<"U+1E8E","U+1E8F">>, <<"U+1E90","U+1E91">>,
      <<"U+1E92","U+1E93">>, <<"U+1E94","U+1E95">>, <<"U+1E9E","U+00DF">>, <<"U+1EA0","U+1EA1">>,
      <<"U+1EA2","U+1EA3">>, <<"U+1EA4","U+1EA5">>, <<"U+1EA6","U+1EA7">>, <<"U+1EA8","U+1EA9">>,
      <<"U+1EAA","U+1EAB">>, <<"U+1EAC","U+1EAD">>, <<"U+1EAE","U+1EAF">>, <<"U+1EB0","U+1EB1">>,
      <<"U+1EB2","U+1EB3">>, <<"U+1EB4","U+1EB5">>, <<"U+1EB6","U+1EB7">>, <<"U+1EB8","U+1EB9">>,
      <<"U+1EBA","U+1EBB">>, <<"U+1EBC","U+1EBD">>, <<"U+1EBE","U+1EBF">>, <<"U+1EC0","U+1EC1">>,
      <<"U+1EC2","U+1EC3">>, <<"U+1EC4","U+1EC5">>, <<"U+1EC6","U+1EC7">>, <<"U+1EC8","U+1EC9">>,
      <<"U+1ECA","U+1ECB">>, <<"U+1ECC","U+1ECD">>, <<"U+1ECE","U+1ECF">>, <<"U+1ED0","U+1ED1">>,
      <<"U+1ED2","U+1ED3">>, <<"U+1ED4","U+1ED5">>, <<"U+1ED6","U+1ED7">>, <<"U+1ED8","U+1ED9">>,
      <<"U+1EDA","U+1EDB">>, <<"U+1EDC","U+1EDD">>, <<"U+1EDE","U+1EDF">>, <<"U+1EE0","U+1EE1">>,
      <<"U+1EE2","U+1EE3">>, <<"U+1EE4","U+1EE5">>, <<"U+1EE6","U+1EE7">>, <<"U+1EE8","U+1EE9">>,
      <<"U+1EEA","U+1EEB">>, <<"U+1EEC","U+1EED">>, <<"U+1EEE","U+1EEF">>, <<"U+1EF0","U+1EF1">>,
      <<"U+1EF2","U+1EF3">>, <<"U+1EF4","U+1EF5">>, <<"U+1EF6","U+1EF7">>, <<"U+1EF8","U+1EF9">>,
      <<"U+1EFA","U+1EFB">>, <<"U+1EFC","U+1EFD">>, <<"U+1EFE","U+1EFF">>, <<"U+1F08","U+1F00">>,
      <<"U+1F09","U+1F01">>, <<"U+1F0A","U+1F02">>, <<"U+1F0B","U+1F03">>, <<"U+1F0C","U+1F04">>,
      <<"U+1F0D","U+1F05">>, <<"U+1F0E","U+1F06">>, <<"U+1F0F","U+1F07">>, <<"U+1F18","U+1F10">>,
      <<"U+1F19","U+1F11">>, <<"U+1F1A","U+1F12">>, <<"U+1F1B","U+1F13">>, <<"U+1F1C","U+1F14">>,
      <<"U+1F1D","U+1F15">>, <<"U+1F28","U+1F20">>, <<"U+1F29","U+1F21">>, <<"U+1F2A","U+1F22">>,
      <<"U+1F2B","U+1F23">>, <<"U+1F2C","U+1F24">>, <<"U+1F2D","U+1F25">>, <<"U+1F2E","U+1F26">>,
      <<"U+1F2F","U+1F27">>, <<"U+1F38","U+1F30">>, <<"U+1F39","U+1F31">>, <<"U+1F3A","U+1F32">>,
      <<"U+1F3B","U+1F33">>, <<"U+1F3C","U+1F34">>, <<"U+1F3D","U+1F35">>, <<"U+1F3E","U+1F36">>,
      <<"U+1F3F","U+1F37">>, <<"U+1F48","U+1F40">>, <<"U+1F49","U+1F41">>, <<"U+1F4A","U+1F42">>,
      <<"U+1F4B","U+1F43">>, <<"U+1F4C","U+1F44">>, <<"U+1F4D","U+1F45">>, <<"U+1F59","U+1F51">>,
      <<"U+1F5B","U+1F53">>, <<"U+1F5D","U+1F55">>, <<"U+1F5F","U+1F57">>, <<"U+1F68","U+1F60">>,
      <<"U+1F69","U+1F61">>, <<"U+1F6A","U+1F62">>, <<"U+1F6B","U+1F63">>, <<"U+1F6C","U+1F64">>,
      <<"U+1F6D","U+1F65">>, <<"U+1F6E","U+1F66">>, <<"U+1F6F","U+1F67">>, <<"U+1F88","U+1F80">>,
      <<"U+1F89","U+1F81">>, <<"U+1F8A","U+1F82">>, <<"U+1F8B","U+1F83">>, <<"U+1F8C","U+1F84">>,
      <<"U+1F8D","U+1F85">>, <<"U+1F8E","U+1F86">>, <<"U+1F8F","U+1F87">>, <<"U+1F98","U+1F90">>,
      <<"U+1F99","U+1F91">>, <<"U+1F9A","U+1F92">>, <<"U+1F9B","U+1F93">>, <<"U+1F9C","U+1F94">>,
      <<"U+1F9D","U+1F95">>, <<"U+1F9E","U+1F96">>, <<"U+1F9F","U+1F97">>, <<"U+1FA8","U+1FA0">>,
      <<"U+1FA9","U+1FA1">>, <<"U+1FAA","U+1FA2">>, <<"U+1FAB","U+1FA3">>, <<"U+1FAC","U+1FA4">>,
      <<"U+1FAD","U+1FA5">>, <<"U+1FAE","U+1FA6">>, <<"U+1FAF","U+1FA7">>, <<"U+1FB8","U+1FB0">>,
      <<"U+1FB9","U+1FB1">>, <<"U+1FBA","U+1F70">>, <<"U+1FBB","U+1F71">>, <<"U+1FBC","U+1FB3">>,
      <<"U+1FC8","U+1F72">>, <<"U+1FC9","U+1F73">>, <<"U+1FCA","U+1F74">>, <<"U+1FCB","U+1F75">>,
      <<"U+1FCC","U+1FC3">>, <<"U+1FD8","U+1FD0">>, <<"U+1FD9","U+1FD1">>, <<"U+1FDA","U+1F76">>,
      <<"U+1FDB","U+1F77">>, <<"U+1FE8","U+1FE0">>, <<"U+1FE9","U+1FE1">>, <<"U+1FEA","U+1F7A">>,
      <<"U+1FEB","U+1F7B">>, <<"U+1FEC","U+1FE5">>, <<"U+1FF8","U+1F78">>, <<"U+1FF9","U+1F79">>,
      <<"U+1FFA","U+1F7C">>, <<"U+1FFB","U+1F7D">>, <<"U+1FFC","U+1FF3">>, <<"U+2126","U+03C9">>,
      <<"U+212A","k">>, <<"U+212B","U+00E5">>, <<"U+2132","U+214E">>, <<"U+2160","U+2170">>,
      <<"U+2161","U+2171">>, <<"U+2162","U+2172">>, <<"U+2163","U+2173">>, <<"U+2164","U+2174">>,
      <<"U+2165","U+2175">>, <<"U+2166","U+2176">>, <<"U+2167","U+2177">>, <<"U+2168","U+2178">>,
      <<"U+2169","U+2179">>, <<"U+216A","U+217A">>, <<"U+216B","U+217B">>, <<"U+216C","U+217C">>,
      <<"U+216D","U+217D">>, <<"U+216E","U+217E">>, <<"U+216F","U+217F">>, <<"U+2183","U+2184">>,
      <<"U+24B6","U+24D0">>, <<"U+24B7","U+24D1">>, <<"U+24B8","U+24D2">>, <<"U+24B9","U+24D3">>,
      <<"U+24BA","U+24D4">>, <<"U+24BB","U+24D5">>, <<"U+24BC","U+24D6">>, <<"U+24BD","U+24D7">>,
      <<"U+24BE","U+24D8">>, <<"U+24BF","U+24D9">>, <<"U+24C0","U+24DA">>, <<"U+24C1","U+24DB">>,
      <<"U+24C2","U+24DC">>, <<"U+24C3","U+24DD">>, <<"U+24C4","U+24DE">>, <<"U+24C5","U+24DF">>,
      <<"U+24C6","U+24E0">>, <<"U+24C7","U+24E1">>, <<"U+24C8","U+24E2">>, <<"U+24C9","U+24E3">>,
      <<"U+24CA","U+24E4">>, <<"U+24CB","U+24E5">>, <<"U+24CC","U+24E6">>, <<"U+24CD","U+24E7">>,
      <<"U+24CE","U+24E8">>, <<"U+24CF","U+24E9">>, <<"U+2C00","U+2C30">>, <<"U+2C01","U+2C31">>,
      <<"U+2C02","U+2C32">>, <<"U+2C03","U+2C33">>, <<"U+2C04","U+2C34">>, <<"U+2C05","U+2C35">>,
      <<"U+2C06","U+2C36">>, <<"U+2C07","U+2C37">>, <<"U+2C08","U+2C38">>, <<"U+2C09","U+2C39">>,
      <<"U+2C0A","U+2C3A">>, <<"U+2C0B","U+2C3B">>, <<"U+2C0C","U+2C3C">>, <<"U+2C0D","U+2C3D">>,
      <<"U+2C0E","U+2C3E">>, <<"U+2C0F","U+2C3F">>, <<"U+2C10","U+2C40">>, <<"U+2C11","U+2C41">>,
      <<"U+2C12","U+2C42">>, <<"U+2C13","U+2C43">>, <<"U+2C14","U+2C44">>, <<"U+2C15","U+2C45">>,
      <<"U+2C16","U+2C46">>, <<"U+2C17","U+2C47">>, <<"U+2C18","U+2C48">>, <<"U+2C19","U+2C49">>,
      <<"U+2C1A","U+2C4A">>, <<"U+2C1B","U+2C4B">>, <<"U+2C1C","U+2C4C">>, <<"U+2C1D","U+2C4D">>,
      <<"U+2C1E","U+2C4E">>, <<"U+2C1F","U+2C4F">>, <<"U+2C20","U+2C50">>, <<"U+2C21","U+2C51">>,
      <<"U+2C22","U+2C52">>, <<"U+2C23","U+2C53">>, <<"U+2C24","U+2C54">>, <<"U+2C25","U+2C55">>,
      <<"U+2C26","U+2C56">>, <<"U+2C27","U+2C57">>, <<"U+2C28","U+2C58">>, <<"U+2C29","U+2C59">>,
      <<"U+2C2A","U+2C5A">>, <<"U+2C2B","U+2C5B">>, <<"U+2C2C","U+2C5C">>, <<"U+2C2D","U+2C5D">>,
      <<"U+2C2E","U+2C5E">>, <<"U+2C2F","U+2C5F">>, <<"U+2C60","U+2C61">>, <<"U+2C62","U+026B">>,
      <<"U+2C63","U+1D7D">>, <<"U+2C64","U+027D">>, <<"U+2C67","U+2C68">>, <<"U+2C69","U+2C6A">>,
      <<"U+2C6B","U+2C6C">>, <<"U+2C6D","U+0251">>, <<"U+2C6E","U+0271">>, <<"U+2C6F","U+0250">>,
      <<"U+2C70","U+0252">>, <<"U+2C72","U+2C73">>, <<"U+2C75","U+2C76">>, <<"U+2C7E","U+023F">>,
      <<"U+2C7F","U+0240">>, <<"U+2C80","U+2C81">>, <<"U+2C82","U+2C83">>, <<"U+2C84","U+2C85">>,
      <<"U+2C86","U+2C87">>, <<"U+2C88","U+2C89">>, <<"U+2C8A","U+2C8B">>, <<"U+2C8C","U+2C8D">>,
      <<"U+2C8E","U+2C8F">>, <<"U+2C90","U+2C91">>, <<"U+2C92","U+2C93">>, <<"U+2C94","U+2C95">>,
      <<"U+2C96","U+2C97">>, <<"U+2C98","U+2C99">>, <<"U+2C9A","U+2C9B">>, <<"U+2C9C","U+2C9D">>,
      <<"U+2C9E","U+2C9F">>, <<"U+2CA0","U+2CA1">>, <<"U+2CA2","U+2CA3">>, <<"U+2CA4","U+2CA5">>,
      <<"U+2CA6","U+2CA7">>, <<"U+2CA8","U+2CA9">>, <<"U+2CAA","U+2CAB">>, <<"U+2CAC","U+2CAD">>,
      <<"U+2CAE","U+2CAF">>, <<"U+2CB0","U+2CB1">>, <<"U+2CB2","U+2CB3">>, <<"U+2CB4","U+2CB5">>,
      <<"U+2CB6","U+2CB7">>, <<"U+2CB8","U+2CB9">>, <<"U+2CBA","U+2CBB">>, <<"U+2CBC","U+2CBD">>,
      <<"U+2CBE","U+2CBF">>, <<"U+2CC0","U+2CC1">>, <<"U+2CC2","U+2CC3">>, <<"U+2CC4","U+2CC5">>,
      <<"U+2CC6","U+2CC7">>, <<"U+2CC8","U+2CC9">>, <<"U+2CCA","U+2CCB">>, <<"U+2CCC","U+2CCD">>,
      <<"U+2CCE","U+2CCF">>, <<"U+2CD0","U+2CD1">>, <<"U+2CD2","U+2CD3">>, <<"U+2CD4","U+2CD5">>,
      <<"U+2CD6","U+2CD7">>, <<"U+2CD8","U+2CD9">>, <<"U+2CDA","U+2CDB">>, <<"U+2CDC","U+2CDD">>,
      <<"U+2CDE","U+2CDF">>, <<"U+2CE0","U+2CE1">>, <<"U+2CE2","U+2CE3">>, <<"U+2CEB","U+2CEC">>,
      <<"U+2CED","U+2CEE">>, <<"U+2CF2","U+2CF3">>, <<"U+A640","U+A641">>, <<"U+A642","U+A643">>,
      <<"U+A644","U+A645">>, <<"U+A646","U+A647">>, <<"U+A648","U+A649">>, <<"U+A64A","U+A64B">>,
      <<"U+A64C","U+A64D">>, <<"U+A64E","U+A64F">>, <<"U+A650","U+A651">>, <<"U+A652","U+A653">>,
      <<"U+A654","U+A655">>, <<"U+A656","U+A657">>, <<"U+A658","U+A659">>, <<"U+A65A","U+A65B">>,
      <<"U+A65C","U+A65D">>, <<"U+A65E","U+A65F">>, <<"U+A660","U+A661">>, <<"U+A662","U+A663">>,
      <<"U+A664","U+A665">>, <<"U+A666","U+A667">>, <<"U+A668","U+A669">>, <<"U+A66A","U+A66B">>,
      <<"U+A66C","U+A66D">>, <<"U+A680","U+A681">>, <<"U+A682","U+A683">>, <<"U+A684","U+A685">>,
      <<"U+A686","U+A687">>, <<"U+A688","U+A689">>, <<"U+A68A","U+A68B">>, <<"U+A68C","U+A68D">>,
      <<"U+A68E","U+A68F">>, <<"U+A690","U+A691">>, <<"U+A692","U+A693">>, <<"U+A694","U+A695">>,
      <<"U+A696","U+A697">>, <<"U+A698","U+A699">>, <<"U+A69A","U+A69B">>, <<"U+A722","U+A723">>,
      <<"U+A724","U+A725">>, <<"U+A726","U+A727">>, <<"U+A728","U+A729">>, <<"U+A72A","U+A72B">>,
      <<"U+A72C","U+A72D">>, <<"U+A72E","U+A72F">>, <<"U+A732","U+A733">>, <<"U+A734","U+A735">>,
      <<"U+A736","U+A737">>, <<"U+A738","U+A739">>, <<"U+A73A","U+A73B">>, <<"U+A73C","U+A73D">>,
      <<"U+A73E","U+A73F">>, <<"U+A740","U+A741">>, <<"U+A742","U+A743">>, <<"U+A744","U+A745">>,
      <<"U+A746","U+A747">>, <<"U+A748","U+A749">>, <<"U+A74A","U+A74B">>, <<"U+A74C","U+A74D">>,
      <<"U+A74E","U+A74F">>, <<"U+A750","U+A751">>, <<"U+A752","U+A753">>, <<"U+A754","U+A755">>,
      <<"U+A756","U+A757">>, <<"U+A758","U+A759">>, <<"U+A75A","U+A75B">>, <<"U+A75C","U+A75D">>,
      <<"U+A75E","U+A75F">>, <<"U+A760","U+A761">>, <<"U+A762","U+A763">>, <<"U+A764","U+A765">>,
      <<"U+A766","U+A767">>, <<"U+A768","U+A769">>, <<"U+A76A","U+A76B">>, <<"U+A76C","U+A76D">>,
      <<"U+A76E","U+A76F">>, <<"U+A779","U+A77A">>, <<"U+A77B","U+A77C">>, <<"U+A77D","U+1D79">>,
      <<"U+A77E","U+A77F">>, <<"U+A780","U+A781">>, <<"U+A782","U+A783">>, <<"U+A784","U+A785">>,
      <<"U+A786","U+A787">>, <<"U+A78B","U+A78C">>, <<"U+A78D","U+0265">>, <<"U+A790","U+A791">>,
      <<"U+A792","U+A793">>, <<"U+A796","U+A797">>, <<"U+A798","U+A799">>, <<"U+A79A","U+A79B">>,
      <<"U+A79C","U+A79D">>, <<"U+A79E","U+A79F">>, <<"U+A7A0","U+A7A1">>, <<"U+A7A2","U+A7A3">>,
      <<"U+A7A4","U+A7A5">>, <<"U+A7A6","U+A7A7">>, <<"U+A7A8","U+A7A9">>, <<"U+A7AA","U+0266">>,
      <<"U+A7AB","U+025C">>, <<"U+A7AC","U+0261">>, <<"U+A7AD","U+026C">>, <<"U+A7AE","U+026A">>,
      <<"U+A7B0","U+029E">>, <<"U+A7B1","U+0287">>, <<"U+A7B2","U+029D">>, <<"U+A7B3","U+AB53">>,
      <<"U+A7B4","U+A7B5">>, <<"U+A7B6","U+A7B7">>, <<"U+A7B8","U+A7B9">>, <<"U+A7BA","U+A7BB">>,
      <<"U+A7BC","U+A7BD">>, <<"U+A7BE","U+A7BF">>, <<"U+A7C0","U+A7C1">>, <<"U+A7C2","U+A7C3">>,
      <<"U+A7C4","U+A794">>, <<"U+A7C5","U+0282">>, <<"U+A7C6","U+1D8E">>, <<"U+A7C7","U+A7C8">>,
      <<"U+A7C9","U+A7CA">>, <<"U+A7D0","U+A7D1">>, <<"U+A7D6","U+A7D7">>, <<"U+A7D8","U+A7D9">>,
      <<"U+A7F5","U+A7F6">>, <<"U+FF21","U+FF41">>, <<"U+FF22","U+FF42">>, <<"U+FF23","U+FF43">>,
      <<"U+FF24","U+FF44">>, <<"U+FF25","U+FF45">>, <<"U+FF26","U+FF46">>, <<"U+FF27","U+FF47">>,
      <<"U+FF28","U+FF48">>, <<"U+FF29","U+FF49">>, <<"U+FF2A","U+FF4A">>, <<"U+FF2B","U+FF4B">>,
      <<"U+FF2C","U+FF4C">>, <<"U+FF2D","U+FF4D">>, <<"U+FF2E","U+FF4E">>, <<"U+FF2F","U+FF4F">>,
      <<"U+FF30","U+FF50">>, <<"U+FF31","U+FF51">>, <<"U+FF32","U+FF52">>, <<"U+FF33","U+FF53">>,
      <<"U+FF34","U+FF54">>, <<"U+FF35","U+FF55">>, <<"U+FF36","U+FF56">>, <<"U+FF37","U+FF57">>,
      <<"U+FF38","U+FF58">>, <<"U+FF39","U+FF59">>, <<"U+FF3A","U+FF5A">>, <<"U+10400","U+10428">>,
      <<"U+10401","U+10429">>, <<"U+10402","U+1042A">>, <<"U+10403","U+1042B">>, <<"U+10404","U+1042C">>,
      <<"U+10405","U+1042D">>, <<"U+10406","U+1042E">>, <<"U+10407","U+1042F">>, <<"U+10408","U+10430">>,
      <<"U+10409","U+10431">>, <<"U+1040A","U+10432">>, <<"U+1040B","U+10433">>, <<"U+1040C","U+10434">>,
      <<"U+1040D","U+10435">>, <<"U+1040E","U+10436">>, <<"U+1040F","U+10437">>, <<"U+10410","U+10438">>,
      <<"U+10411","U+10439">>, <<"U+10412","U+1043A">>, <<"U+10413","U+1043B">>, <<"U+10414","U+1043C">>,
      <<"U+10415","U+1043D">>, <<"U+10416","U+1043E">>, <<"U+10417","U+1043F">>, <<"U+10418","U+10440">>,
      <<"U+10419","U+10441">>, <<"U+1041A","U+10442">>, <<"U+1041B","U+10443">>, <<"U+1041C","U+10444">>,
      <<"U+1041D","U+10445">>, <<"U+1041E","U+10446">>, <<"U+1041F","U+10447">>, <<"U+10420","U+10448">>,
      <<"U+10421","U+10449">>, <<"U+10422","U+1044A">>, <<"U+10423","U+1044B">>, <<"U+10424","U+1044C">>,
      <<"U+10425","U+1044D">>, <<"U+10426","U+1044E">>, <<"U+10427","U+1044F">>, <<"U+104B0","U+104D8">>,
      <<"U+104B1","U+104D9">>, <<"U+104B2","U+104DA">>, <<"U+104B3","U+104DB">>, <<"U+104B4","U+104DC">>,
      <<"U+104B5","U+104DD">>, <<"U+104B6","U+104DE">>, <<"U+104B7","U+104DF">>, <<"U+104B8","U+104E0">>,
      <<"U+104B9","U+104E1">>, <<"U+104BA","U+104E2">>, <<"U+104BB","U+104E3">>, <<"U+104BC","U+104E4">>,
      <<"U+104BD","U+104E5">>, <<"U+104BE","U+104E6">>, <<"U+104BF","U+104E7">>, <<"U+104C0","U+104E8">>,
      <<"U+104C1","U+104E9">>, <<"U+104C2","U+104EA">>, <<"U+104C3","U+104EB">>, <<"U+104C4","U+104EC">>,
      <<"U+104C5","U+104ED">>, <<"U+104C6","U+104EE">>, <<"U+104C7","U+104EF">>, <<"U+104C8","U+104F0">>,
      <<"U+104C9","U+104F1">>, <<"U+104CA","U+104F2">>, <<"U+104CB","U+104F3">>, <<"U+104CC","U+104F4">>,
      <<"U+104CD","U+104F5">>, <<"U+104CE","U+104F6">>, <<"U+104CF","U+104F7">>, <<"U+104D0","U+104F8">>,
      <<"U+104D1","U+104F9">>, <<"U+104D2","U+104FA">>, <<"U+104D3","U+104FB">>, <<"U+10570","U+10597">>,
      <<"U+10571","U+10598">>, <<"U+10572","U+10599">>, <<"U+10573","U+1059A">>, <<"U+10574","U+1059B">>,
      <<"U+10575","U+1059C">>, <<"U+10576","U+1059D">>, <<"U+10577","U+1059E">>, <<"U+10578","U+1059F">>,
      <<"U+10579","U+105A0">>, <<"U+1057A","U+105A1">>, <<"U+1057C","U+105A3">>, <<"U+1057D","U+105A4">>,
      <<"U+1057E","U+105A5">>, <<"U+1057F","U+105A6">>, <<"U+10580","U+105A7">>, <<"U+10581","U+105A8">>,
      <<"U+10582","U+105A9">>, <<"U+10583","U+105AA">>, <<"U+10584","U+105AB">>, <<"U+10585","U+105AC">>,
      <<"U+10586","U+105AD">>, <<"U+10587","U+105AE">>, <<"U+10588","U+105AF">>, <<"U+10589","U+105B0">>,
      <<"U+1058A","U+105B1">>, <<"U+1058C","U+105B3">>, <<"U+1058D","U+105B4">>, <<"U+1058E","U+105B5">>,
      <<"U+1058F","U+105B6">>, <<"U+10590","U+105B7">>, <<"U+10591","U+105B8">>, <<"U+10592","U+105B9">>,
      <<"U+10594","U+105BB">>, <<"U+10595","U+105BC">>, <<"U+10C80","U+10CC0">>, <<"U+10C81","U+10CC1">>,
      <<"U+10C82","U+10CC2">>, <<"U+10C83","U+10CC3">>, <<"U+10C84","U+10CC4">>, <<"U+10C85","U+10CC5">>,
      <<"U+10C86","U+10CC6">>, <<"U+10C87","U+10CC7">>, <<"U+10C88","U+10CC8">>, <<"U+10C89","U+10CC9">>,
      <<"U+10C8A","U+10CCA">>, <<"U+10C8B","U+10CCB">>, <<"U+10C8C","U+10CCC">>, <<"U+10C8D","U+10CCD">>,
      <<"U+10C8E","U+10CCE">>, <<"U+10C8F","U+10CCF">>, <<"U+10C90","U+10CD0">>, <<"U+10C91","U+10CD1">>,
      <<"U+10C92","U+10CD2">>, <<"U+10C93","U+10CD3">>, <<"U+10C94","U+10CD4">>, <<"U+10C95","U+10CD5">>,
      <<"U+10C96","U+10CD6">>, <<"U+10C97","U+10CD7">>, <<"U+10C98","U+10CD8">>, <<"U+10C99","U+10CD9">>,
      <<"U+10C9A","U+10CDA">>, <<"U+10C9B","U+10CDB">>, <<"U+10C9C","U+10CDC">>, <<"U+10C9D","U+10CDD">>,
      <<"U+10C9E","U+10CDE">>, <<"U+10C9F","U+10CDF">>, <<"U+10CA0","U+10CE0">>, <<"U+10CA1","U+10CE1">>,
      <<"U+10CA2","U+10CE2">>, <<"U+10CA3","U+10CE3">>, <<"U+10CA4","U+10CE4">>, <<"U+10CA5","U+10CE5">>,
      <<"U+10CA6","U+10CE6">>, <<"U+10CA7","U+10CE7">>, <<"U+10CA8","U+10CE8">>, <<"U+10CA9","U+10CE9">>,
      <<"U+10CAA","U+10CEA">>, <<"U+10CAB","U+10CEB">>, <<"U+10CAC","U+10CEC">>, <<"U+10CAD","U+10CED">>,
      <<"U+10CAE","U+10CEE">>, <<"U+10CAF","U+10CEF">>, <<"U+10CB0","U+10CF0">>, <<"U+10CB1","U+10CF1">>,
      <<"U+10CB2","U+10CF2">>, <<"U+118A0","U+118C0">>, <<"U+118A1","U+118C1">>, <<"U+118A2","U+118C2">>,
      <<"U+118A3","U+118C3">>, <<"U+118A4","U+118C4">>, <<"U+118A5","U+118C5">>, <<"U+118A6","U+118C6">>,
      <<"U+118A7","U+118C7">>, <<"U+118A8","U+118C8">>, <<"U+118A9","U+118C9">>, <<"U+118AA","U+118CA">>,
      <<"U+118AB","U+118CB">>, <<"U+118AC","U+118CC">>, <<"U+118AD","U+118CD">>, <<"U+118AE","U+118CE">>,
      <<"U+118AF","U+118CF">>, <<"U+118B0","U+118D0">>, <<"U+118B1","U+118D1">>, <<"U+118B2","U+118D2">>,
      <<"U+118B3","U+118D3">>, <<"U+118B4","U+118D4">>, <<"U+118B5","U+118D5">>, <<"U+118B6","U+118D6">>,
      <<"U+118B7","U+118D7">>, <<"U+118B8","U+118D8">>, <<"U+118B9","U+118D9">>, <<"U+118BA","U+118DA">>,
      <<"U+118BB","U+118DB">>, <<"U+118BC","U+118DC">>, <<"U+118BD","U+118DD">>, <<"U+118BE","U+118DE">>,
      <<"U+118BF","U+118DF">>, <<"U+16E40","U+16E60">>, <<"U+16E41","U+16E61">>, <<"U+16E42","U+16E62">>,
      <<"U+16E43","U+16E63">>, <<"U+16E44","U+16E64">>, <<"U+16E45","U+16E65">>, <<"U+16E46","U+16E66">>,
      <<"U+16E47","U+16E67">>, <<"U+16E48","U+16E68">>, <<"U+16E49","U+16E69">>, <<"U+16E4A","U+16E6A">>,
      <<"U+16E4B","U+16E6B">>, <<"U+16E4C","U+16E6C">>, <<"U+16E4D","U+16E6D">>, <<"U+16E4E","U+16E6E">>,
      <<"U+16E4F","U+16E6F">>, <<"U+16E50","U+16E70">>, <<"U+16E51","U+16E71">>, <<"U+16E52","U+16E72">>,
      <<"U+16E53","U+16E73">>, <<"U+16E54","U+16E74">>, <<"U+16E55","U+16E75">>, <<"U+16E56","U+16E76">>,
      <<"U+16E57","U+16E77">>, <<"U+16E58","U+16E78">>, <<"U+16E59","U+16E79">>, <<"U+16E5A","U+16E7A">>,
      <<"U+16E5B","U+16E7B">>, <<"U+16E5C","U+16E7C">>, <<"U+16E5D","U+16E7D">>, <<"U+16E5E","U+16E7E">>,
      <<"U+16E5F","U+16E7F">>, <<"U+1E900","U+1E922">>, <<"U+1E901","U+1E923">>, <<"U+1E902","U+1E924">>,
      <<"U+1E903","U+1E925">>, <<"U+1E904","U+1E926">>, <<"U+1E905","U+1E927">>, <<"U+1E906","U+1E928">>,
      <<"U+1E907","U+1E929">>, <<"U+1E908","U+1E92A">>, <<"U+1E909","U+1E92B">>, <<"U+1E90A","U+1E92C">>,
      <<"U+1E90B","U+1E92D">>, <<"U+1E90C","U+1E92E">>, <<"U+1E90D","U+1E92F">>, <<"U+1E90E","U+1E930">>,
      <<"U+1E90F","U+1E931">>, <<"U+1E910","U+1E932">>, <<"U+1E911","U+1E933">>, <<"U+1E912","U+1E934">>,
      <<"U+1E913","U+1E935">>, <<"U+1E914","U+1E936">>, <<"U+1E915","U+1E937">>, <<"U+1E916","U+1E938">>,
      <<"U+1E917","U+1E939">>, <<"U+1E918","U+1E93A">>, <<"U+1E919","U+1E93B">>, <<"U+1E91A","U+1E93C">>,
      <<"U+1E91B","U+1E93D">>, <<"U+1E91C","U+1E93E">>, <<"U+1E91D","U+1E93F">>, <<"U+1E91E","U+1E940">>,
      <<"U+1E91F","U+1E941">>, <<"U+1E920","U+1E942">>, <<"U+1E921","U+1E943">>
    >>

LowerOf == [c \in {CaseTable[i][1] : i \in DOMAIN CaseTable} |->
               CaseTable[CHOOSE i \in DOMAIN CaseTable : CaseTable[i][1] = c][2]]

\* unicode.ToLower on one rune.
ToLowerRune(c) ==
    IF \E i \in DOMAIN UpperSeq : UpperSeq[i] = c
    THEN LowerSeq[CHOOSE i \in DOMAIN UpperSeq : UpperSeq[i] = c]
    ELSE IF c \in DOMAIN LowerOf THEN LowerOf[c]
    ELSE c

\* strings.ToLower
ToLower(s) == [i \in DOMAIN s |-> ToLowerRune(s[i])]

\* All sequences over A of length at most n.
RECURSIVE SeqsUpTo(_, _)
SeqsUpTo(A, n) ==
    IF n = 0 THEN {<<>>}
    ELSE LET shorter == SeqsUpTo(A, n - 1)
         IN  shorter \cup {Append(s, a) : s \in {t \in shorter : Len(t) = n - 1}, a \in A}

\* Whether pat occurs in s at index i.
OccursAt(pat, s, i) ==
    /\ i >= 1
    /\ i + Len(pat) - 1 <= Len(s)
    /\ \A k \in 1..Len(pat) : s[i + k - 1] = pat[k]

\* strings.Contains / an unanchored literal regexp match.
Contains(s, pat) == \E i \in 1..(Len(s) + 1) : OccursAt(pat, s, i)

(***************************************************************************)
(* sanitizeFileName (root.go 254-259).                                     *)
(***************************************************************************)
\* The runes the regexp [^\w\- ] leaves in place.
IsKept(c) == c \in WordChars \cup {"-", " "}

\* reg.ReplaceAllString(name, ""): delete every rune the regexp matches.
RECURSIVE StripUnsafe(_)
StripUnsafe(s) ==
    IF s = <<>> THEN <<>>
    ELSE IF IsKept(Head(s)) THEN <<Head(s)>> \o StripUnsafe(Tail(s))
    ELSE StripUnsafe(Tail(s))

RECURSIVE TrimLeft(_)
TrimLeft(s) ==
    IF s /= <<>> /\ Head(s) \in UnicodeSpace THEN TrimLeft(Tail(s)) ELSE s

RECURSIVE TrimRight(_)
TrimRight(s) ==
    IF s /= <<>> /\ s[Len(s)] \in UnicodeSpace
    THEN TrimRight(SubSeq(s, 1, Len(s) - 1)) ELSE s

\* strings.TrimSpace
TrimSpace(s) == TrimRight(TrimLeft(s))

\* strings.ReplaceAll(s, " ", "_"): every single space becomes one underscore.
SpacesToUnderscores(s) == [i \in DOMAIN s |-> IF s[i] = " " THEN "_" ELSE s[i]]

\* The reading "trim, strip, then one underscore per RUN of whitespace".
RECURSIVE CollapseRuns(_)
CollapseRuns(s) ==
    IF s = <<>> THEN <<>>
    ELSE IF Head(s) \in UnicodeSpace
         THEN <<"_">> \o CollapseRuns(TrimLeft(s))
         ELSE <<Head(s)>> \o CollapseRuns(Tail(s))

ReferenceSanitize(s) == CollapseRuns(StripUnsafe(TrimSpace(s)))

\* A sanitizer whose regexp spells the word class without the underscore,
\* [^a-zA-Z0-9\- ]: its own output is stripped again on a second pass.
RECURSIVE StripUnsafeNoUnderscore(_)
StripUnsafeNoUnderscore(s) ==
    IF s = <<>> THEN <<>>
    ELSE IF IsKept(Head(s)) /\ Head(s) /= "_"
         THEN <<Head(s)>> \o StripUnsafeNoUnderscore(Tail(s))
    ELSE StripUnsafeNoUnderscore(Tail(s))

sanitizeFileName_noUnderscore(s) ==
    SpacesToUnderscores(TrimSpace(StripUnsafeNoUnderscore(s)))

\* A sanitizer that only trims and replaces spaces: the regexp step is lost.
sanitizeFileName_noStrip(s) == SpacesToUnderscores(TrimSpace(s))

sanitizeFileName(s) == SpacesToUnderscores(TrimSpace(StripUnsafe(s)))

(***************************************************************************)
(* isTargetFile (root.go 80-85).                                           *)
(***************************************************************************)
screenshotPattern == <<"s","c","r","e","e","n","s","h","o","t">>

\* The source bytes of the class are  e, U+00C3, U+00A9  (a mis-decoded e acute).
dalleClass == {"e", "U+00C3", "U+00A9"}

\* dall[...]? : "dall", then the class rune or nothing.
dalleMatchesAt(s, i) ==
    /\ OccursAt(<<"d","a","l","l">>, s, i)
    /\ \/ (i + 4 <= Len(s) /\ s[i + 4] \in dalleClass)   \* the optional rune present
       \/ TRUE                                            \* the optional rune absent

dallePattern(s) == \E i \in 1..(Len(s) + 1) : dalleMatchesAt(s, i)

isTargetFile(f) ==
    LET lower == ToLower(f)
    IN  Contains(lower, screenshotPattern) \/ dallePattern(lower)

(***************************************************************************)
(* Input domains of the two pure functions.                                *)
(***************************************************************************)
SanChars == {"a", "_", "-", " ", "\t", "U+3000", "!", "/", "U+00E9"}
SanInputs == SeqsUpTo(SanChars, MaxLen)

FileChunks ==
    { <<"s","c","r","e","e","n">>, <<"s","h","o","t">>,
      <<"S","C","R","E","E","N">>, <<"S","h","o","t">>,
      <<"d","a","l","l">>, <<"D","A","L","L">>, <<"d","a","l">>,
      <<"e">>, <<"-">>, <<"U+00E9">>, <<"U+00C9">>,
      <<"a","s">>, <<"l","o","g","o">>, <<".","p","n","g">> }

RECURSIVE Flatten(_)
Flatten(ss) == IF ss = <<>> THEN <<>> ELSE Head(ss) \o Flatten(Tail(ss))

FileInputs == {Flatten(cs) : cs \in SeqsUpTo(FileChunks, MaxChunks)}

WalkIdle ==
    /\ fs = <<>> /\ fs0 = <<>> /\ todo = <<>> /\ pc = "idle"
    /\ cur = <<>> /\ stdin = <<>> /\ stdinEOF = FALSE /\ apiKey = FALSE
    /\ visits = <<>> /\ lastRename = <<>>
    /\ renameErr = FALSE /\ walkErr = FALSE

SanIdle ==
    /\ name = <<>> /\ cleanName = <<>> /\ cleanAgain = <<>> /\ spc = "idle"

ClsIdle ==
    /\ filename = <<>> /\ isTarget = FALSE /\ cpc = "idle"

(***************************************************************************)
(* SpecSanitize: sanitizeFileName on every input, then on its own output.  *)
(***************************************************************************)
InitSanitize ==
    /\ name \in SanInputs
    /\ cleanName = <<>> /\ cleanAgain = <<>> /\ spc = "start"
    /\ ClsIdle
    /\ WalkIdle

Sanitize ==
    /\ spc = "start"
    /\ cleanName' = sanitizeFileName(name)
    /\ spc' = "once"
    /\ UNCHANGED <<name, cleanAgain, filename, isTarget, cpc, walkVars>>

SanitizeAgain ==
    /\ spc = "once"
    /\ cleanAgain' = sanitizeFileName(cleanName)
    /\ spc' = "twice"
    /\ UNCHANGED <<name, cleanName, filename, isTarget, cpc, walkVars>>

NextSanitize == Sanitize \/ SanitizeAgain

SpecSanitize == InitSanitize /\ [][NextSanitize]_vars

(***************************************************************************)
(* SpecClassify: isTargetFile on every input.                              *)
(***************************************************************************)
InitClassify ==
    /\ filename \in FileInputs
    /\ isTarget = FALSE /\ cpc = "start"
    /\ SanIdle
    /\ WalkIdle

Classify ==
    /\ cpc = "start"
    /\ isTarget' = isTargetFile(filename)
    /\ cpc' = "done"
    /\ UNCHANGED <<filename, name, cleanName, cleanAgain, spc, walkVars>>

NextClassify == Classify

SpecClassify == InitClassify /\ [][NextClassify]_vars

(***************************************************************************)
(* Paths (path/filepath on a slash-separated system).                      *)
(***************************************************************************)
\* Byte order of the runes that occur in paths, as sort.Strings compares them.
ByteOrder == <<" ", "!", "(", ")", "-", ".", "/">>
             \o <<"0","1","2","3","4","5","6","7","8","9">>
             \o UpperSeq \o <<"_">> \o LowerSeq

ByteRank(c) == CHOOSE i \in DOMAIN ByteOrder : ByteOrder[i] = c

\* a < b as Go compares strings.
RECURSIVE StrLess(_, _)
StrLess(a, b) ==
    IF b = <<>> THEN FALSE
    ELSE IF a = <<>> THEN TRUE
    ELSE IF Head(a) = Head(b) THEN StrLess(Tail(a), Tail(b))
    ELSE ByteRank(Head(a)) < ByteRank(Head(b))

\* The index of the last separator of p, 0 when there is none.
LastSlash(p) ==
    LET at == {i \in DOMAIN p : p[i] = "/"}
    IN  IF at = {} THEN 0 ELSE CHOOSE i \in at : \A j \in at : j <= i

\* The elements of p between its separators (empty ones included).
RECURSIVE SplitPath(_)
SplitPath(p) ==
    LET at == {i \in DOMAIN p : p[i] = "/"}
    IN  IF at = {} THEN <<p>>
        ELSE LET i == CHOOSE j \in at : \A k \in at : j <= k
             IN  <<SubSeq(p, 1, i - 1)>> \o SplitPath(SubSeq(p, i + 1, Len(p)))

\* filepath.Clean's pass over the elements: "" and "." are dropped, ".." takes
\* the element before it away (at the root it is dropped, at the start kept).
RECURSIVE CleanElems(_, _, _)
CleanElems(es, out, rooted) ==
    IF es = <<>> THEN out
    ELSE LET el == Head(es)
         IN  IF el = <<>> \/ el = <<".">> THEN CleanElems(Tail(es), out, rooted)
             ELSE IF el = <<".", ".">>
             THEN IF out /= <<>> /\ out[Len(out)] /= <<".", ".">>
                  THEN CleanElems(Tail(es), SubSeq(out, 1, Len(out) - 1), rooted)
                  ELSE IF rooted THEN CleanElems(Tail(es), out, rooted)
                  ELSE CleanElems(Tail(es), Append(out, el), rooted)
             ELSE CleanElems(Tail(es), Append(out, el), rooted)

RECURSIVE JoinElems(_)
JoinElems(es) ==
    IF es = <<>> THEN <<>>
    ELSE IF Len(es) = 1 THEN es[1]
    ELSE es[1] \o <<"/">> \o JoinElems(Tail(es))

\* filepath.Clean
Clean(p) ==
    IF p = <<>> THEN <<".">>
    ELSE LET rooted == p[1] = "/"
             body == JoinElems(CleanElems(SplitPath(p), <<>>, rooted))
         IN  IF rooted THEN <<"/">> \o body
             ELSE IF body = <<>> THEN <<".">> ELSE body

\* filepath.Dir: Clean of the path up to and with its last separator.
Dir(p) == Clean(SubSeq(p, 1, LastSlash(p)))

\* filepath.Base; fs.FileInfo.Name() of a walked entry.
Base(p) ==
    LET c == Clean(p)
    IN  IF c = <<"/">> THEN c ELSE SubSeq(c, LastSlash(c) + 1, Len(c))

\* filepath.Ext: the suffix from the last dot of the last element, or "".
Ext(p) ==
    LET dots == {i \in DOMAIN p : p[i] = "." /\ i > LastSlash(p)}
    IN  IF dots = {} THEN <<>>
        ELSE SubSeq(p, CHOOSE i \in dots : \A j \in dots : j <= i, Len(p))

\* filepath.Join(dir, name): the non-empty arguments joined, then cleaned.
Join(dir, n) ==
    IF dir = <<>> /\ n = <<>> THEN <<>>
    ELSE IF dir = <<>> THEN Clean(n)
    ELSE IF n = <<>> THEN Clean(dir)
    ELSE Clean(dir \o <<"/">> \o n)

\* readDirNames: the names in dir, sorted.
RECURSIVE SortStrings(_)
SortStrings(S) ==
    IF S = {} THEN <<>>
    ELSE LET m == CHOOSE x \in S : \A y \in S \ {x} : StrLess(x, y)
         IN  <<m>> \o SortStrings(S \ {m})

readDirNames(tree, dir) ==
    SortStrings({Base(q) : q \in {r \in DOMAIN tree : r /= dir /\ Dir(r) = dir}})

(***************************************************************************)
(* fmt.Scanln(&input) on the unread runes of standard input.               *)
(***************************************************************************)
\* (*ss).SkipSpace with nlIsSpace false: err is "unexpected newline".
RECURSIVE SkipSpace(_)
SkipSpace(buf) ==
    IF buf = <<>> THEN [err |-> FALSE, rest |-> <<>>]
    ELSE IF Head(buf) = "\n" THEN [err |-> TRUE, rest |-> Tail(buf)]
    ELSE IF Head(buf) \in UnicodeSpace THEN SkipSpace(Tail(buf))   \* "\r" too
    ELSE [err |-> FALSE, rest |-> buf]

\* (*ss).token: the longest prefix of non-space runes.
RECURSIVE TokenLen(_)
TokenLen(buf) ==
    IF buf = <<>> \/ Head(buf) \in UnicodeSpace THEN 0 ELSE 1 + TokenLen(Tail(buf))

\* doScan's check for the newline after the last operand: spaces are read up to
\* the newline; a rune that is neither is read too, and then reported.
RECURSIVE ExpectNewline(_)
ExpectNewline(buf) ==
    IF buf = <<>> THEN <<>>
    ELSE IF Head(buf) = "\n" THEN Tail(buf)
    ELSE IF Head(buf) \in UnicodeSpace THEN ExpectNewline(Tail(buf))
    ELSE Tail(buf)

\* The value left in input (initially "") and the runes left unread.
Scanln(buf) ==
    LET sk == SkipSpace(buf)
    IN  IF sk.err \/ sk.rest = <<>>
        THEN [input |-> <<>>, rest |-> sk.rest]
        ELSE LET n == TokenLen(sk.rest)
             IN  [input |-> SubSeq(sk.rest, 1, n),
                  rest  |-> ExpectNewline(SubSeq(sk.rest, n + 1, Len(sk.rest)))]

(***************************************************************************)
(* getLabelsFromImage (root.go 87-177) and removeDuplicates (180-192).     *)
(***************************************************************************)
RECURSIVE removeDuplicates(_)
removeDuplicates(elements) ==
    IF elements = <<>> THEN <<>>
    ELSE LET init == removeDuplicates(SubSeq(elements, 1, Len(elements) - 1))
             v == elements[Len(elements)]
         IN  IF v \in Range(init) THEN init ELSE Append(init, v)

RECURSIVE NonEmpty(_)
NonEmpty(ss) ==
    IF ss = <<>> THEN <<>>
    ELSE IF Head(ss) = <<>> THEN NonEmpty(Tail(ss))
    ELSE <<Head(ss)>> \o NonEmpty(Tail(ss))

\* The labels of one annotation response, in the order the code appends them.
getLabelsFromImage(res) ==
    removeDuplicates(res.labels \o NonEmpty(res.web) \o res.text \o res.objects)

(***************************************************************************)
(* getDescriptionFromChatGPT (root.go 194-240).                            *)
(***************************************************************************)
\* The prompt the labels select: the one that lists them, joined by ", ", or
\* the one that says no labels are available.
buildPrompt(labels) ==
    IF Len(labels) > 0
    THEN [kind |-> "labels", labels |-> labels]
    ELSE [kind |-> "nolabels", labels |-> <<>>]

\* key: OPENAI_API_KEY is set; out: what CreateChatCompletion returns.
getDescriptionFromChatGPT(key, out) ==
    IF ~key THEN [err |-> TRUE, description |-> <<>>]
    ELSE IF out.err THEN [err |-> TRUE, description |-> <<>>]
    ELSE IF Len(out.choices) > 0
         THEN [err |-> FALSE, description |-> TrimSpace(out.choices[1])]
    ELSE [err |-> TRUE, description |-> <<>>]

(***************************************************************************)
(* renameFile (root.go 242-252) and os.Rename.                             *)
(***************************************************************************)
\* fmt.Sprintf("%s/%s%s", dir, sanitizeFileName(description), ext)
newNameOf(path, description) ==
    Dir(path) \o <<"/">> \o sanitizeFileName(description) \o Ext(path)

\* Whether rename(2) accepts the pair in this tree (keyed by clean paths): the
\* source exists, the destination names no directory and lies in an existing
\* directory.
RenameAllowed(tree, old, new) ==
    /\ Clean(old) \in DOMAIN tree
    /\ new[Len(new)] /= "/"
    /\ ~(Clean(new) \in DOMAIN tree /\ tree[Clean(new)] = 0)
    /\ Dir(Clean(new)) \in DOMAIN tree /\ tree[Dir(Clean(new))] = 0

\* The tree after a rename that succeeded: an existing destination is replaced.
osRename(tree, old, new) ==
    [q \in (DOMAIN tree \ {Clean(old)}) \cup {Clean(new)} |->
        IF q = Clean(new) THEN tree[Clean(old)] ELSE tree[q]]

(***************************************************************************)
(* The inputs of a run.                                                    *)
(***************************************************************************)
\* The entries of the tree, relative to its root, with their identities.
Rel1 == <<"d","a","l","l","1",".","p","n","g">>
Rel2 == <<"d","a","l","l","2",".","p","n","g">>
RelSub == <<"d","a","l","l","e">>
Rel3 == <<"d","a","l","l","e","/","S","c","r","e","e","n","s","h","o","t">>
RelLogo == <<"l","o","g","o",".","p","n","g">>

RelIds == [r \in {Rel1, Rel2, RelSub, Rel3, RelLogo} |->
              IF r = Rel1 THEN 1 ELSE IF r = Rel2 THEN 2
              ELSE IF r = Rel3 THEN 3 ELSE IF r = RelLogo THEN 4 ELSE 0]

\* root/  dall1.png  dall2.png  dalle/Screenshot  logo.png
TreeAt(root) ==
    [q \in {Clean(root)} \cup {Join(root, r) : r \in DOMAIN RelIds} |->
        IF q = Clean(root) THEN 0
        ELSE RelIds[CHOOSE r \in DOMAIN RelIds : Join(root, r) = q]]

\* args[0]: a named directory, the same with a trailing separator, or ".".
Root  == <<"d">>
Roots == {Root, <<"d", "/">>, <<".">>}

File1 == Join(Root, Rel1)
File2 == Join(Root, Rel2)
SubDir == Join(Root, RelSub)
File3 == Join(Root, Rel3)
Logo  == Join(Root, RelLogo)

Tree0 == TreeAt(Root)

FileIds == {Tree0[q] : q \in DOMAIN Tree0} \ {0}

Cat == <<"c","a","t">>
Dog == <<"d","o","g">>

\* What the annotation call returns: an error, or one response.
VisionOutcomes ==
    { [err |-> TRUE,  labels |-> <<>>, web |-> <<>>, text |-> <<>>, objects |-> <<>>],
      [err |-> FALSE, labels |-> <<>>, web |-> <<>>, text |-> <<>>, objects |-> <<>>],
      [err |-> FALSE, labels |-> <<Cat, Dog>>, web |-> <<<<>>, Cat>>,
                      text |-> <<>>, objects |-> <<Dog>>] }

\* The first choice's content, as the model returns it.
Replies ==
    { <<"U+3000","c","a","t","\n">>,             \* U+3000 "cat\n"
      <<"d","a","l","l","2">>,                   \* "dall2"
      <<"d","a","l","l","e","/","x">>,           \* "dalle/x"
      <<"v","1",".","2">>,                       \* "v1.2"
      <<"!","!">> }                              \* "!!"

ChatOutcomes ==
    { [err |-> TRUE, choices |-> <<>>], [err |-> FALSE, choices |-> <<>>] }
    \cup { [err |-> FALSE, choices |-> <<r>>] : r \in Replies }

\* The lines an operator may type at a prompt (without the newline).
Lines ==
    { <<"y">>, <<"Y">>, <<"n">>, <<>>, <<"y","e","s">>,
      <<"y"," ","n">>, <<"y","U+3000","n">>, <<"n"," ","y","y">> }

NoCur ==
    [ path |-> <<>>, id |-> 0, steps |-> <<>>, labels |-> <<>>,
      request |-> [kind |-> "none", labels |-> <<>>], description |-> <<>>,
      asked |-> FALSE, line |-> <<>>, input |-> <<>>,
      describeErr |-> FALSE, suggestErr |-> FALSE, renamed |-> FALSE ]

NoRename == [from |-> <<>>, to |-> <<>>, description |-> <<>>]

(***************************************************************************)
(* Spec: searchDirectory(Root) (root.go 44-78).                            *)
(***************************************************************************)
Init ==
    /\ \E root \in Roots :
          /\ fs = TreeAt(root) /\ fs0 = TreeAt(root)
          /\ todo = <<root>>
    /\ pc = "walk"
    /\ cur = NoCur
    /\ stdin = <<>> /\ stdinEOF = FALSE
    /\ apiKey \in BOOLEAN
    /\ visits = [i \in FileIds |-> 0]
    /\ lastRename = NoRename
    /\ renameErr = FALSE /\ walkErr = FALSE
    /\ SanIdle /\ ClsIdle

\* root.go 46-48 and 75-77: the callback returns the error, Walk returns it,
\* log.Fatalf ends the process.
WalkFailed ==
    /\ walkErr' = TRUE
    /\ pc' = "fatal"
    /\ UNCHANGED <<fs, fs0, todo, cur, stdin, stdinEOF, apiKey, visits,
                   lastRename, renameErr>>

\* filepath.Walk's next entry and the callback's test of it (root.go 45-51).
Visit ==
    /\ pc = "walk" /\ todo /= <<>>
    /\ LET path == Head(todo)
       IN  \E err \in BOOLEAN :
             IF err \/ Clean(path) \notin DOMAIN fs
             THEN WalkFailed
             ELSE IF fs[Clean(path)] = 0
             THEN /\ LET names == readDirNames(fs, Clean(path))
                     IN  todo' = [i \in DOMAIN names |-> Join(path, names[i])]
                                 \o Tail(todo)
                  /\ UNCHANGED <<fs, fs0, pc, cur, stdin, stdinEOF, apiKey, visits,
                                 lastRename, renameErr, walkErr>>
             ELSE IF isTargetFile(Base(path))
             THEN /\ cur' = [NoCur EXCEPT !.path = path, !.id = fs[Clean(path)]]
                  /\ visits' = [visits EXCEPT ![fs[Clean(path)]] = @ + 1]
                  /\ pc' = "describe"
                  /\ todo' = Tail(todo)
                  /\ UNCHANGED <<fs, fs0, stdin, stdinEOF, apiKey,
                                 lastRename, renameErr, walkErr>>
             ELSE /\ todo' = Tail(todo)
                  /\ UNCHANGED <<fs, fs0, pc, cur, stdin, stdinEOF, apiKey, visits,
                                 lastRename, renameErr, walkErr>>
    /\ UNCHANGED pureVars

\* filepath.Walk returns nil: searchDirectory returns (root.go 73-78).
WalkDone ==
    /\ pc = "walk" /\ todo = <<>>
    /\ pc' = "done"
    /\ UNCHANGED <<fs, fs0, todo, cur, stdin, stdinEOF, apiKey, visits,
                   lastRename, renameErr, walkErr>>
    /\ UNCHANGED pureVars

\* root.go 53-56: log, labels = []string{}.
DescribeFailed ==
    cur' = [cur EXCEPT !.steps = Append(@, "describe"), !.describeErr = TRUE,
                       !.labels = <<>>]

\* labels, err := getLabelsFromImage(path) (root.go 52-56).
Describe ==
    /\ pc = "describe"
    /\ \E res \in VisionOutcomes :
          IF res.err THEN DescribeFailed
          ELSE cur' = [cur EXCEPT !.steps = Append(@, "describe"),
                                  !.labels = getLabelsFromImage(res)]
    /\ pc' = "suggest"
    /\ UNCHANGED <<fs, fs0, todo, stdin, stdinEOF, apiKey, visits,
                   lastRename, renameErr, walkErr>>
    /\ UNCHANGED pureVars

\* A suggester failure that is logged and then falls through to the prompt.
SuggestFailed_fallThrough(request) ==
    /\ cur' = [cur EXCEPT !.steps = Append(@, "suggest"), !.suggestErr = TRUE,
                          !.request = request]
    /\ pc' = "prompt"

\* root.go 59-62: log, return nil.
SuggestFailed(request) ==
    /\ cur' = [cur EXCEPT !.steps = Append(@, "suggest"), !.suggestErr = TRUE,
                          !.request = request]
    /\ pc' = "walk"

\* description, err := getDescriptionFromChatGPT(labels) (root.go 58-64).
Suggest ==
    /\ pc = "suggest"
    /\ \E out \in ChatOutcomes :
          LET request == IF apiKey THEN buildPrompt(cur.labels) ELSE NoCur.request
              result == getDescriptionFromChatGPT(apiKey, out)
          IN  IF result.err THEN SuggestFailed(request)
              ELSE /\ cur' = [cur EXCEPT !.steps = Append(@, "suggest"),
                                         !.request = request,
                                         !.description = result.description]
                   /\ pc' = "prompt"
    /\ UNCHANGED <<fs, fs0, todo, stdin, stdinEOF, apiKey, visits,
                   lastRename, renameErr, walkErr>>
    /\ UNCHANGED pureVars

\* root.go 65-70 on the unread runes buf; the operator typed line (asked) or not.
Answer(buf, asked, line) ==
    LET r == Scanln(buf)
    IN  /\ cur' = [cur EXCEPT !.steps = Append(@, "prompt"), !.asked = asked,
                              !.line = line, !.input = r.input]
        /\ stdin' = r.rest
        /\ pc' = IF ToLower(r.input) = <<"y">> THEN "rename" ELSE "walk"

\* The prompt and fmt.Scanln(&input) (root.go 64-70).
Confirm ==
    /\ pc = "prompt"
    /\ \/ \* runes of an earlier line are still unread: Scanln reads those
          /\ stdin /= <<>>
          /\ Answer(stdin, FALSE, <<>>)
          /\ UNCHANGED stdinEOF
       \/ \* the operator types a line
          /\ stdin = <<>> /\ ~stdinEOF
          /\ \E line \in Lines : Answer(line \o <<"\n">>, TRUE, line)
          /\ UNCHANGED stdinEOF
       \/ \* standard input is at its end
          /\ stdin = <<>>
          /\ stdinEOF' = TRUE
          /\ Answer(<<>>, FALSE, <<>>)
    /\ UNCHANGED <<fs, fs0, todo, apiKey, visits, lastRename, renameErr, walkErr>>
    /\ UNCHANGED pureVars

\* A rename failure that is logged without ending the process.
RenameFailed_logOnly ==
    /\ renameErr' = TRUE
    /\ pc' = "walk"
    /\ cur' = [cur EXCEPT !.steps = Append(@, "rename")]
    /\ UNCHANGED <<fs, lastRename>>

\* root.go 248-250: log.Fatalf.
RenameFailed ==
    /\ renameErr' = TRUE
    /\ pc' = "fatal"
    /\ cur' = [cur EXCEPT !.steps = Append(@, "rename")]
    /\ UNCHANGED <<fs, lastRename>>

\* renameFile(path, description) (root.go 69 and 242-252).
RenameFile ==
    /\ pc = "rename"
    /\ LET newName == newNameOf(cur.path, cur.description)
       IN  \E osErr \in BOOLEAN :
             IF osErr \/ ~RenameAllowed(fs, cur.path, newName)
             THEN RenameFailed
             ELSE /\ fs' = osRename(fs, cur.path, newName)
                  /\ lastRename' = [from |-> cur.path, to |-> newName,
                                    description |-> cur.description]
                  /\ cur' = [cur EXCEPT !.steps = Append(@, "rename"),
                                        !.renamed = TRUE]
                  /\ pc' = "walk"
                  /\ UNCHANGED renameErr
    /\ UNCHANGED <<fs0, todo, stdin, stdinEOF, apiKey, visits, walkErr>>
    /\ UNCHANGED pureVars

Next == Visit \/ WalkDone \/ Describe \/ Suggest \/ Confirm \/ RenameFile

Spec == Init /\ [][Next]_vars

(***************************************************************************)
(* The claims.                                                             *)
(***************************************************************************)
Pipeline == <<"describe", "suggest", "prompt", "rename">>

IsPrefix(a, b) == Len(a) <= Len(b) /\ a = SubSeq(b, 1, Len(a))

NumFiles(tree) == Cardinality({q \in DOMAIN tree : tree[q] /= 0})

\* C1: when the Name Suggester fails for a candidate file (no credential, a
\* remote error, or no choices), no prompt is shown and no rename is tried for
\* it, the file stays at its path, and the run goes on with the walk: it ends
\* fatally only if the traversal itself fails later.
C1_SuggestFailureSkipsFile ==
    cur.suggestErr =>
        /\ "prompt" \notin Range(cur.steps)
        /\ "rename" \notin Range(cur.steps)
        /\ ~cur.asked /\ ~cur.renamed
        /\ cur.path \in DOMAIN fs /\ fs[cur.path] = cur.id
        /\ ~renameErr
        /\ IF walkErr THEN pc = "fatal" ELSE pc \in {"walk", "done"}

\* C1 witness: with no credential every candidate fails, and the walk still
\* visits all three and returns.
C1_Witness ==
    /\ ~apiKey /\ pc = "done"
    /\ cur.suggestErr /\ cur.path = File3
    /\ \A i \in {1, 2, 3} : visits[i] = 1
    /\ fs = fs0

\* C2: when the Content Describer fails the run is not aborted and the Name
\* Suggester is still called for the file, with the label collection set to the
\* single label made of the file's base name without its extension.
C2_Original ==
    cur.describeErr =>
        /\ pc = "suggest" \/ "suggest" \in Range(cur.steps)
        /\ pc = "fatal" => (renameErr \/ walkErr)
        /\ cur.labels = <<SubSeq(Base(cur.path), 1,
                              Len(Base(cur.path)) - Len(Ext(cur.path)))>>

\* C3 as claimed: a rename is tried only for a non-directory entry the
\* Classifier accepts, whose suggestion came without error, and for which the
\* operator entered exactly "y" or "Y"; each file's confirmation rests on the
\* line entered for that file alone.
C3_Original ==
    /\ (pc = "rename" \/ "rename" \in Range(cur.steps)) =>
          /\ cur.path \in DOMAIN fs0 /\ fs0[cur.path] /= 0
          /\ isTargetFile(Base(cur.path))
          /\ ~cur.suggestErr
          /\ cur.asked /\ cur.line \in {<<"y">>, <<"Y">>}
    /\ "prompt" \in Range(cur.steps) => (cur.asked \/ stdinEOF)

\* C4: a rename performed for path P with suggestion S goes to
\* Dir(P) + "/" + sanitize(S) + Ext(P); the sanitized name holds no separator,
\* so the file stays in its directory, and it keeps its extension.
C4_RenameInPlace ==
    lastRename /= NoRename =>
        LET P == lastRename.from
            D == lastRename.to
            clean == sanitizeFileName(lastRename.description)
        IN  /\ D = Dir(P) \o <<"/">> \o clean \o Ext(P)
            /\ "/" \notin Range(clean)
            /\ Dir(D) = Dir(P)
            /\ Ext(D) = Ext(P)
            /\ cur.renamed => (Clean(D) \in DOMAIN fs /\ fs[Clean(D)] = cur.id)

\* C4 witness: a suggestion that holds a separator was used for a rename.
C4_Witness ==
    /\ cur.renamed /\ cur.path = File1
    /\ "/" \in Range(lastRename.description)
    /\ lastRename.to = <<"d","/","d","a","l","l","e","x",".","p","n","g">>
    /\ File1 \notin DOMAIN fs

\* C5 (as amended): sanitizeFileName removes every rune that is not a word
\* character, hyphen or space, THEN trims leading and trailing spaces, then
\* replaces EACH remaining space by one underscore: the result is the kept
\* runes from the first to the last one that is not a space, with "_" for " ".
\* The empty string gives the empty string; k spaces between two words give k
\* underscores.
C5_SanitizeContract ==
    spc \in {"once", "twice"} =>
        LET solid == {i \in DOMAIN name : IsKept(name[i]) /\ name[i] /= " "}
        IN  IF solid = {} THEN cleanName = <<>>
            ELSE LET lo == CHOOSE i \in solid : \A j \in solid : i <= j
                     hi == CHOOSE i \in solid : \A j \in solid : j <= i
                     core == {i \in lo..hi : IsKept(name[i])}
                     rank(i) == Cardinality({j \in core : j <= i})
                 IN  /\ Len(cleanName) = Cardinality(core)
                     /\ \A i \in core :
                           cleanName[rank(i)] = IF name[i] = " " THEN "_" ELSE name[i]

\* C5 witness: two spaces between two words came out as two underscores.
C5_Witness ==
    /\ spc = "once"
    /\ name = <<"a", " ", " ", "a">>
    /\ cleanName = <<"a", "_", "_", "a">>

\* C5 as claimed: the result is that of trimming first, then stripping, then
\* replacing each maximal run of whitespace by one underscore.
C5_Original ==
    spc \in {"once", "twice"} => cleanName = ReferenceSanitize(name)

\* C6: sanitizeFileName is idempotent.
C6_SanitizeIdempotent ==
    spc = "twice" => cleanAgain = cleanName

\* C6 witness: an input the first pass changed, by stripping and by replacing.
C6_Witness ==
    /\ spc = "twice"
    /\ name = <<"!", "a", " ", "a">>
    /\ cleanName = <<"a", "_", "a">>

\* "dalle" or "dall-e", with e or e acute, in the lowered name.
HasDalleVariant(lower) ==
    \E v \in { <<"d","a","l","l","e">>, <<"d","a","l","l","-","e">>,
               <<"d","a","l","l","U+00E9">>, <<"d","a","l","l","-","U+00E9">> } :
        Contains(lower, v)

\* C7 as claimed: isTargetFile is true exactly for the names that hold
\* "screenshot" in any letter case or a variant of "dall-e"/"dalle", and false
\* for every other name, those that merely hold "dall" included.
C7_Original ==
    cpc = "done" =>
        (isTarget <=> \/ Contains(ToLower(filename), screenshotPattern)
                      \/ HasDalleVariant(ToLower(filename)))

\* C8: once a rename fails or the traversal reports an error the run is over:
\* the process is at its fatal exit, no step of any file can follow, and the
\* last rename performed before the failure is still in place.
C8_FatalAborts ==
    (renameErr \/ walkErr) =>
        /\ pc = "fatal"
        /\ ~ENABLED Next
        /\ lastRename /= NoRename =>
              /\ Clean(lastRename.to) \in DOMAIN fs
              /\ \/ Clean(lastRename.from) = Clean(lastRename.to)
                 \/ Clean(lastRename.from) \notin DOMAIN fs

\* C8 witness: a rename failed after an earlier file was renamed, with entries
\* still unvisited.
C8_Witness ==
    /\ pc = "fatal" /\ renameErr
    /\ cur.path = File2
    /\ lastRename.from = File1 /\ File1 \notin DOMAIN fs
    /\ todo /= <<>>

\* C9 as claimed: the steps of a file run in the order describe, suggest,
\* prompt, rename, each at most once per file, one file at a time, and a file
\* renamed during the run is not visited again under its new name.
C9_Original ==
    /\ IsPrefix(cur.steps, Pipeline)
    /\ pc \in {"describe", "suggest", "prompt", "rename"} =>
          pc = Pipeline[Len(cur.steps) + 1]
    /\ \A i \in FileIds : visits[i] <= 1

\* C10 as claimed: a rename never destroys another file, so the tree holds as
\* many files after any step as before the run.
C10_Original ==
    NumFiles(fs) = NumFiles(fs0)

====
